---- MODULE Spec2Model ----
(***************************************************************************)
(* Model of src/src/multibootloader.js: the MultiBootloader page-transfer  *)
(* state machine.  One action per callback of the program: the file read   *)
(* callback, the signal-line read callbacks, the timers, and the           *)
(* completion / error callbacks of the bus messages.  The message          *)
(* transport (discobus), the serial port and the file system are the       *)
(* environment: they choose the signal-line values, whether a read or a    *)
(* message fails, and the order in which pending callbacks are delivered.  *)
(* Transport, timer and file callbacks are delivered in a turn of their    *)
(* own; serial.get may call its callback before it returns or in a later   *)
(* turn, and readSignalLine() may be overridden by the caller.             *)
(***************************************************************************)
EXTENDS Integers, Sequences, FiniteSets, TLC

(* ---- bounds of the model ---------------------------------------------- *)
MaxLen == 3            \* longest program file, in bytes
MaxPages == 2          \* most pages a program file is split into
MaxTries == 2          \* largest maxTries option

(* ---- program constants ------------------------------------------------ *)
MSG_START == 241
MSG_PAGE_NUM == 242
MSG_PAGE_DATA == 243
MSG_END == 244
MAX_RETRIES == 2
SIGNAL_TIMEOUT == 1000
delay == 100
NoErrorPage == -1
\* an option the caller did not supply (typeof x === 'undefined')
Undefined == -1

\* the option values and transport errors the runs are checked with
PageSizes == {1, 2}
SignalTimeouts == {0, delay}
TransportErrors == {"EIO", "ECLOSED"}
FileErrors == {"ENOENT", "EACCES"}

VARIABLES
  options,       \* the options argument the constructor is called with
  callsLeft,     \* how many program() calls the caller still makes on the instance
  listener,      \* whether the caller registered a listener for 'error' events
  disco,         \* this._disco: "none" until the transport is created and connected
  opt,           \* this._opt (NoOptions until the constructor has assigned it)
  content,       \* the bytes of the file program() is called with
  pages,         \* this._pages
  currentPage,   \* this._currentPage
  programTries,  \* this._programTries
  errorAtPage,   \* this._errorAtPage
  outcome,       \* the promise program() returned (this._programPromise)
  pc,            \* which callback the run is waiting for
  wait,          \* the locals of the _untilSignal call in progress
  inflight,      \* bus messages whose completion / error callback is pending
  readFailed,    \* whether a serial.get call has failed in this run
  log            \* history: every message, signal read, callback and event

vars == <<options, callsLeft, listener, disco, opt, content, pages, currentPage, programTries, errorAtPage,
          outcome, pc, wait, inflight, readFailed, log>>

(* ---- history records -------------------------------------------------- *)
Ev(type, cmd, len, data, val, ctx, ref) ==
  [type |-> type, cmd |-> cmd, len |-> len, data |-> data,
   val |-> val, ctx |-> ctx, ref |-> ref]

\* this._disco.startMessage(cmd, len).sendData(data).endMessage()
Msg(cmd, len, data) == Ev("msg", cmd, len, data, FALSE, "", 0)

\* the value a readSignalLine() promise resolved with (failed: serial.get erred)
ReadEv(ctx, val, failed) == Ev("read", 0, 0, <<>>, val, ctx, IF failed THEN 1 ELSE 0)

\* this._emit(kind, ...) with the fields it snapshots
EmitEv(kind, np, cp, eap, tries) == Ev("emit", 0, 0, <<np, cp, eap, tries>>, FALSE, kind, 0)

\* a transport callback for the message at log index ref
\* the texts of the two 'error' events the class emits itself
CouldNotReadSignalLine == 1
VerificationError == 2

\* this._emit('error', text)
ErrorEv(text, np, cp, eap, tries) ==
  Ev("emit", 0, 0, <<np, cp, eap, tries>>, FALSE, "error", text)

\* this.emit('error', ...) of an EventEmitter with no 'error' listener throws
\* the event as an unhandled error; 'status' events are dropped silently
EmitThrows(kind, heard) == kind = "error" /\ ~heard

\* an exception leaves the callback that is running
ThrowEv(what) == Ev("throw", 0, 0, <<>>, FALSE, what, 0)

\* the .catch of checkSignal: console.log('ERROR', err); reject(err)
CatchEv(ctx) == Ev("catch", 0, 0, <<>>, FALSE, ctx, 0)

\* the fs.readFile callback: err is "" when the file was read
FileEv(err) == Ev("readFile", 0, 0, <<>>, err # "", err, 0)

DoneEv(type, ref) == Ev(type, 0, 0, <<>>, FALSE, "", ref)

(* ---- pure helpers ----------------------------------------------------- *)
Min(a, b) == IF a < b THEN a ELSE b

\* Buffer.from([0, 1, ..., L-1]): byte i of the file is i
Image(L) == [i \in 1..L |-> (i - 1) % 256]

\* content.slice(from, to) with 0-based, end-exclusive indexes
Slice(buf, from, to) ==
  [j \in 1..(Min(to, Len(buf)) - Min(from, Len(buf))) |-> buf[from + j]]

RECURSIVE SplitFromMutant(_, _, _)
SplitFromMutant(buf, i, pageSize) ==
  IF i + pageSize <= Len(buf)
    THEN <<Slice(buf, i, i + pageSize)>> \o SplitFromMutant(buf, i + pageSize, pageSize)
    ELSE <<>>

\* for (let i = 0; i < content.length; i += pageSize) pages.push(content.slice(i, i + pageSize))
RECURSIVE SplitFrom(_, _, _)
SplitFrom(buf, i, pageSize) ==
  IF i < Len(buf)
    THEN <<Slice(buf, i, i + pageSize)>> \o SplitFrom(buf, i + pageSize, pageSize)
    ELSE <<>>

SplitPages(buf, pageSize) == SplitFrom(buf, 0, pageSize)

\* what serial.get may hand to its callback, and when: sync is TRUE when the
\* callback is called before serial.get returns, i.e. inside the executor of
\* the promise readSignalLine() creates.  The last record is a readSignalLine()
\* overridden by the caller whose promise rejects.
SerialStatus ==
  {[err |-> FALSE, dsr |-> TRUE, sync |-> FALSE, rejects |-> FALSE],
   [err |-> FALSE, dsr |-> FALSE, sync |-> FALSE, rejects |-> FALSE],
   [err |-> TRUE, dsr |-> FALSE, sync |-> FALSE, rejects |-> FALSE],
   [err |-> TRUE, dsr |-> FALSE, sync |-> TRUE, rejects |-> FALSE],
   [err |-> FALSE, dsr |-> FALSE, sync |-> FALSE, rejects |-> TRUE]}

\* readSignalLine: err -> false, otherwise the negated DSR level
readSignalLine(st) == IF st.err THEN FALSE ELSE ~st.dsr

\* the reads the environment may still deliver: the serial port fails at most
\* one status read per run
Reads == {st \in SerialStatus : st.err => ~readFailed}

(* ---- the promise of program() ----------------------------------------- *)
Pending == [state |-> "pending", reason |-> "", err |-> ""]
Resolved == [state |-> "resolved", reason |-> "", err |-> ""]
Rejected(reason, err) == [state |-> "rejected", reason |-> reason, err |-> err]

ReadFailureMutant(err) == Rejected("read", "")
\* reject(err) in the fs.readFile callback
ReadFailure(err) == Rejected("read", err)

WriteFailureMutant(err) == Pending
\* reject(`Error writing to serial device: ${err}`) in the first subscribe callback
WriteFailure(err) == Rejected("write", err)

SettleMutant(p, to) == to
\* resolve / reject of a promise: only a pending promise changes state
Settle(p, to) == IF p.state = "pending" THEN to ELSE p

(* ---- the constructor -------------------------------------------------- *)
\* a version option: not given, null, or an object with major and / or minor
NoVersion == [kind |-> "absent", major |-> Undefined, minor |-> Undefined]
VersionArgs ==
  {NoVersion, [kind |-> "null", major |-> Undefined, minor |-> Undefined]}
    \cup [kind : {"object"}, major : {Undefined, 1}, minor : {Undefined, 2}]

\* the options arguments the runs of Spec are constructed with
Options ==
  [pageSize : PageSizes \cup {Undefined}, maxTries : 0..MaxTries,
   signalTimeout : SignalTimeouts, version : {NoVersion}]

\* the placeholder for this._opt while the constructor has not assigned it
NoOptions ==
  [pageSize |-> 1, maxTries |-> 0, signalTimeout |-> 0,
   version |-> [major |-> 0, minor |-> 0]]

\* typeof options.pageSize === 'undefined'
PageSizeMissing(o) == o.pageSize = Undefined

\* Object.assign({}, defaults, given) for one key: a supplied value wins
Assigned(default, given) == IF given = Undefined THEN default ELSE given

VersionOfMutant(v) ==
  IF v.kind = "object"
    THEN [major |-> v.major, minor |-> v.minor]
    ELSE [major |-> 0, minor |-> 0]

\* this._opt.version = Object.assign({}, {major: 0, minor: 0}, this._opt.version)
\* followed by the normalisation of undefined sub-fields; a null or missing
\* source is skipped by Object.assign
VersionOf(v) ==
  IF v.kind = "object"
    THEN [major |-> Assigned(0, v.major), minor |-> Assigned(0, v.minor)]
    ELSE [major |-> 0, minor |-> 0]

\* this._opt after the constructor
OptionsOf(o) ==
  [pageSize |-> o.pageSize,
   maxTries |-> Assigned(MAX_RETRIES, o.maxTries),
   signalTimeout |-> Assigned(SIGNAL_TIMEOUT, o.signalTimeout),
   version |-> VersionOf(o.version)]

DiscoAtThrowMutant == "connected"
\* the transport when the pageSize check throws: it is created and connected
\* only after the check
DiscoAtThrow == "none"

(* ---- Init ------------------------------------------------------------- *)
\* the state new MultiBootloader(serial, options) starts from, and the file
\* program() will be called with
InitWith(o, L, calls, heard) ==
  /\ options = o
  /\ callsLeft = calls
  /\ listener = heard
  /\ content = Image(L)
  /\ disco = "none"
  /\ opt = NoOptions
  /\ pages = <<>>
  /\ currentPage = 0
  /\ programTries = 0
  /\ errorAtPage = NoErrorPage
  /\ outcome = [state |-> "none", reason |-> "", err |-> ""]
  /\ pc = "new"
  /\ wait = [target |-> FALSE, then |-> "", tries |-> 0, time |-> 0]
  /\ inflight = {}
  /\ readFailed = FALSE
  /\ log = <<>>

Init ==
  \E o \in Options, L \in 0..MaxLen, heard \in BOOLEAN :
    /\ IF PageSizeMissing(o) THEN L = 0
                            ELSE Len(SplitPages(Image(L), o.pageSize)) <= MaxPages
    /\ InitWith(o, L, 1, heard)

(* ---- decisions of the code, one operator each ------------------------- *)
\* _untilSignal: enabled === target
SignalMatches(enabled, target) == enabled = target

\* checkSignal: time = tries * delay, tries being the polls made before
ElapsedAt(tries) == tries * delay

MayPollAgainMutant(time, signalTimeout) == time <= signalTimeout
\* _untilSignal: time < this._opt.signalTimeout
MayPollAgain(time, signalTimeout) == time < signalTimeout

\* onToTheNextPage: enabled === true && this._errorAtPage < 0
MarksError(enabled, eap) == enabled = TRUE /\ eap < 0

SentAllPagesMutant(cp, np) == TRUE
SentAllPagesOffByOne(cp, np) == cp > np
\* onToTheNextPage: this._currentPage >= this._pages.length
SentAllPages(cp, np) == cp >= np

\* onToTheNextPage: this._programTries < this._opt.maxTries
RetryAllowed(tries, maxTries) == tries < maxTries

RetryPageMutant(eap) == 1
\* onToTheNextPage: this._currentPage = this._errorAtPage
RetryPage(eap) == eap

NextTriesMutant(tries) == tries
\* onToTheNextPage: this._programTries++
NextTries(tries) == tries + 1

ReadyTargetMutant == FALSE
\* program: this._untilSignal(true)
ReadyTarget == TRUE

BusyTargetMutant == TRUE
\* _sendStartMessage: this._untilSignal(false)
BusyTarget == FALSE

EndSendsMutant == 2 - 1
\* _finish: for (let i = 0; i < 2; i++)
EndSends == 2

FinishCallbackMutant(i) == IF i = 2 THEN "resolve" ELSE "undefined"

\* _finish: the value of `complete` when the i-th subscribe call is evaluated.
\* `let complete` is declared inside the loop body, so every iteration has a
\* fresh, still undefined binding when it is passed to subscribe; the
\* assignment complete = this._programPromise.resolve comes after the call.
FinishCallback(i) == "undefined"

(* ---- sub-steps shared by several callbacks ---------------------------- *)
untilSignalMutant(target, then) ==
  /\ wait' = [target |-> target, then |-> "start", tries |-> 1, time |-> 0]
  /\ pc' = "checkSignal"

\* _untilSignal(target).then(...): the first checkSignal call (time = 0,
\* tries = 1) has called readSignalLine and waits for its value; then names the
\* continuation the caller chained ("start": _sendStartMessage, "pageNumber":
\* _sendPageNumber)
untilSignal(target, then) ==
  /\ wait' = [target |-> target, then |-> then, tries |-> 1, time |-> ElapsedAt(0)]
  /\ pc' = "checkSignal"

\* _sendStartMessage, appended to history lg
sendStartMessage(lg, pending) ==
  /\ log' = lg \o <<Msg(MSG_START, 2, <<opt.version.major, opt.version.minor>>)>>
  /\ inflight' = pending \cup {Len(lg) + 1}
  /\ pc' = "transport"

\* _sendPageNumber, appended to history lg
sendPageNumber(lg, pending) ==
  /\ currentPage' = currentPage + 1
  /\ log' = lg \o <<Msg(MSG_PAGE_NUM, 1, <<currentPage + 1>>)>>
  /\ inflight' = pending \cup {Len(lg) + 1}
  /\ pc' = "transport"

PageOfMutant(pgs, cp) == pgs[1]
\* _sendNextPage: this._pages[this._currentPage - 1]
PageOf(pgs, cp) == pgs[cp]

\* _sendNextPage with this._currentPage = cp, this._errorAtPage = eap and
\* this._programTries = tries, appended to history lg.  With no page at that
\* index, page is undefined and page.length throws after the status event.
sendNextPage(lg, pending, cp, eap, tries) ==
  LET lg1 == lg \o <<EmitEv("status", Len(pages), cp, eap, tries)>> IN
  IF cp \in 1..Len(pages)
    THEN /\ log' = lg1 \o <<Msg(MSG_PAGE_DATA, Len(PageOf(pages, cp)), PageOf(pages, cp))>>
         /\ inflight' = pending \cup {Len(lg1) + 1}
         /\ pc' = "transport"
    ELSE /\ log' = lg1 \o <<ThrowEv("TypeError")>>
         /\ inflight' = pending
         /\ pc' = "crashed"

\* _finish, appended to history lg: both END messages are begun, ended and
\* subscribed to in the same turn
finish(lg, pending) ==
  /\ log' = lg \o [i \in 1..EndSends |-> Msg(MSG_END, 0, <<>>)]
  /\ inflight' = pending \cup {Len(lg) + i : i \in 1..EndSends}
  /\ pc' = "transport"

\* readSignalLine: the serial.get callback, called in a later turn, got an
\* error and the 'error' event it emits throws: the exception leaves the
\* callback, resolve(false) is never reached and the promise stays pending
ReadThrows(st) == st.err /\ ~st.sync /\ EmitThrows("error", listener)

\* the promise of readSignalLine() rejects: the same throw inside the promise
\* executor (serial.get called back before returning), or an overriding
\* readSignalLine() that rejects
ReadRejects(st) == st.rejects \/ (st.err /\ st.sync /\ EmitThrows("error", listener))

\* history after a readSignalLine() call whose serial.get callback got st and
\* resolved the promise
AfterRead(lg, ctx, st) ==
  lg \o (IF st.err
           THEN <<ErrorEv(CouldNotReadSignalLine, Len(pages), currentPage,
                          errorAtPage, programTries)>>
           ELSE <<>>)
     \o <<ReadEv(ctx, readSignalLine(st), st.err)>>

(* ---- actions: one per callback ---------------------------------------- *)
\* new MultiBootloader(serial, options)
Construct ==
  /\ pc = "new"
  /\ IF PageSizeMissing(options)
       THEN /\ pc' = "threw"
            /\ disco' = DiscoAtThrow
            /\ UNCHANGED opt
       ELSE /\ opt' = OptionsOf(options)
            /\ disco' = "connected"
            /\ pc' = "idle"
  /\ UNCHANGED <<options, callsLeft, listener, content, pages, currentPage, programTries, errorAtPage,
                 outcome, wait, inflight, readFailed, log>>

\* program(filepath): the promise is created and fs.readFile is started
Program ==
  /\ callsLeft > 0
  /\ pc = "idle" \/ (pc = "halted" /\ inflight = {})
  /\ callsLeft' = callsLeft - 1
  /\ outcome' = Pending
  /\ pc' = "readFile"
  /\ UNCHANGED <<options, listener, disco, opt, content, pages, currentPage, programTries, errorAtPage,
                 wait, inflight, readFailed, log>>

\* the fs.readFile callback
ReadFileCallback ==
  /\ pc = "readFile"
  /\ \E err \in {""} \cup FileErrors :
       IF err # ""
         THEN /\ outcome' = Settle(outcome, ReadFailure(err))
              /\ pc' = "halted"
              /\ log' = log \o <<FileEv(err)>>
              /\ UNCHANGED <<pages, wait>>
         ELSE /\ pages' = pages \o SplitPages(content, opt.pageSize)
              /\ log' = log \o <<FileEv(err),
                                  EmitEv("status", Len(pages'), currentPage,
                                         errorAtPage, programTries)>>
              /\ untilSignal(ReadyTarget, "start")
              /\ UNCHANGED outcome
  /\ UNCHANGED <<options, callsLeft, listener, disco, opt, content, currentPage, programTries, errorAtPage,
                 inflight, readFailed>>

\* the readSignalLine().then callback inside checkSignal (_untilSignal) and its
\* .catch, with the .then / .catch continuations of the caller
CheckSignalRead ==
  /\ pc = "checkSignal"
  /\ \E st \in Reads :
       LET enabled == readSignalLine(st)
           lg1 == AfterRead(log, IF wait.then = "start" THEN "ready" ELSE "busy", st)
       IN
       /\ readFailed' = (readFailed \/ st.err)
       /\ IF ReadThrows(st)
            THEN /\ log' = log \o <<ThrowEv("UnhandledError")>>
                 /\ pc' = "crashed"
                 /\ UNCHANGED <<currentPage, outcome, inflight>>
            ELSE
          IF ReadRejects(st)
            THEN /\ outcome' = Settle(outcome, Rejected("timeout", ""))
                 /\ pc' = "halted"
                 /\ log' = log \o <<CatchEv(IF wait.then = "start" THEN "ready" ELSE "busy")>>
                 /\ UNCHANGED <<currentPage, inflight>>
            ELSE
          IF SignalMatches(enabled, wait.target)
            THEN IF wait.then = "start"
                   THEN /\ sendStartMessage(lg1, inflight)
                        /\ UNCHANGED <<currentPage, outcome>>
                   ELSE /\ sendPageNumber(lg1, inflight)
                        /\ UNCHANGED outcome
            ELSE IF MayPollAgain(wait.time, opt.signalTimeout)
                   THEN /\ pc' = "signalTimer"
                        /\ log' = lg1
                        /\ UNCHANGED <<currentPage, outcome, inflight>>
                   ELSE /\ outcome' = Settle(outcome, Rejected("timeout", ""))
                        /\ pc' = "halted"
                        /\ log' = lg1
                        /\ UNCHANGED <<currentPage, inflight>>
  /\ UNCHANGED <<options, callsLeft, listener, disco, opt, content, pages, programTries, errorAtPage, wait>>

\* the setTimeout(delay) callback of _untilSignal: checkSignal runs again
SignalTimer ==
  /\ pc = "signalTimer"
  /\ wait' = [wait EXCEPT !.time = ElapsedAt(wait.tries), !.tries = wait.tries + 1]
  /\ pc' = "checkSignal"
  /\ UNCHANGED <<options, callsLeft, listener, disco, opt, content, pages, currentPage, programTries, errorAtPage,
                 outcome, inflight, readFailed, log>>

\* the third (completion) callback given to subscribe, for the message at m
MessageComplete ==
  /\ pc = "transport"
  /\ \E m \in inflight :
       LET cmd == log[m].cmd
           lg1 == log \o <<DoneEv("complete", m)>>
           rest == inflight \ {m}
           nth == Cardinality({k \in 1..m : log[k].type = "msg" /\ log[k].cmd = MSG_END})
       IN
       CASE cmd = MSG_START ->
              /\ untilSignal(BusyTarget, "pageNumber")
              /\ log' = lg1
              /\ inflight' = rest
              /\ UNCHANGED <<outcome>>
         [] cmd = MSG_PAGE_NUM ->
              /\ sendNextPage(lg1, rest, currentPage, errorAtPage, programTries)
              /\ UNCHANGED <<outcome, wait>>
         [] cmd = MSG_PAGE_DATA ->
              /\ pc' = "pageCheck"
              /\ log' = lg1
              /\ inflight' = rest
              /\ UNCHANGED <<outcome, wait>>
         [] cmd = MSG_END ->
              /\ outcome' = IF FinishCallback(nth) = "resolve"
                              THEN Settle(outcome, Resolved) ELSE outcome
              /\ pc' = IF rest = {} THEN "halted" ELSE "transport"
              /\ log' = lg1
              /\ inflight' = rest
              /\ UNCHANGED wait
  /\ UNCHANGED <<options, callsLeft, listener, disco, opt, content, pages, currentPage, programTries, errorAtPage,
                 readFailed>>

\* the first callback given to subscribe, for the message at m: the run is
\* rejected with a write error
MessageError ==
  /\ pc = "transport"
  /\ \E m \in inflight, e \in TransportErrors :
       /\ outcome' = Settle(outcome, WriteFailure(e))
       /\ inflight' = inflight \ {m}
       /\ log' = log \o <<DoneEv("error", m)>>
       /\ pc' = IF inflight' = {} THEN "halted" ELSE "transport"
  /\ UNCHANGED <<options, callsLeft, listener, disco, opt, content, pages, currentPage, programTries, errorAtPage,
                 wait, readFailed>>

\* onToTheNextPage: the readSignalLine().then callback after a page was sent;
\* the chain has no .catch, so a rejected read is an unhandled rejection
PageCheckRead ==
  /\ pc = "pageCheck"
  /\ \E st \in Reads :
       LET enabled == readSignalLine(st)
           mark == MarksError(enabled, errorAtPage)
           eap1 == IF mark THEN currentPage ELSE errorAtPage
           lg1 == AfterRead(log, "page", st)
                    \o (IF mark
                          THEN <<ErrorEv(VerificationError, Len(pages), currentPage,
                                         eap1, programTries)>>
                          ELSE <<>>)
       IN
       /\ readFailed' = (readFailed \/ st.err)
       /\ IF ReadThrows(st)
            THEN /\ log' = log \o <<ThrowEv("UnhandledError")>>
                 /\ pc' = "crashed"
                 /\ UNCHANGED <<currentPage, programTries, errorAtPage, outcome, inflight>>
            ELSE
          IF ReadRejects(st)
            THEN /\ log' = log \o <<ThrowEv("UnhandledRejection")>>
                 /\ pc' = "crashed"
                 /\ UNCHANGED <<currentPage, programTries, errorAtPage, outcome, inflight>>
            ELSE
          IF mark /\ EmitThrows("error", listener)
            THEN /\ errorAtPage' = eap1
                 /\ log' = AfterRead(log, "page", st) \o <<ThrowEv("UnhandledError")>>
                 /\ pc' = "crashed"
                 /\ UNCHANGED <<currentPage, programTries, outcome, inflight>>
            ELSE
          IF SentAllPages(currentPage, Len(pages))
            THEN IF eap1 > -1
                   THEN IF RetryAllowed(programTries, opt.maxTries)
                          THEN /\ programTries' = NextTries(programTries)
                               /\ currentPage' = RetryPage(eap1)
                               /\ errorAtPage' = NoErrorPage
                               /\ sendNextPage(lg1, inflight, currentPage',
                                               errorAtPage', programTries')
                               /\ UNCHANGED outcome
                          ELSE /\ outcome' = Settle(outcome, Rejected("retry", ""))
                               /\ errorAtPage' = eap1
                               /\ pc' = "halted"
                               /\ log' = lg1
                               /\ UNCHANGED <<currentPage, programTries, inflight>>
                   ELSE /\ finish(lg1, inflight)
                        /\ errorAtPage' = eap1
                        /\ UNCHANGED <<currentPage, programTries, outcome>>
            ELSE /\ pc' = "pageTimer"
                 /\ errorAtPage' = eap1
                 /\ log' = lg1
                 /\ UNCHANGED <<currentPage, programTries, outcome, inflight>>
  /\ UNCHANGED <<options, callsLeft, listener, disco, opt, content, pages, wait>>

\* the setTimeout(timeBetweenPages) callback: _sendPageNumber
PageTimer ==
  /\ pc = "pageTimer"
  /\ sendPageNumber(log, inflight)
  /\ UNCHANGED <<options, callsLeft, listener, disco, opt, content, pages, programTries, errorAtPage, outcome,
                 wait, readFailed>>

Next ==
  \/ Construct
  \/ Program
  \/ ReadFileCallback
  \/ CheckSignalRead
  \/ SignalTimer
  \/ MessageComplete
  \/ MessageError
  \/ PageCheckRead
  \/ PageTimer

Spec == Init /\ [][Next]_vars

\* the runs of a two-page file under every kind of version option
InitOptions ==
  \E v \in VersionArgs :
    InitWith([pageSize |-> 1, maxTries |-> 1, signalTimeout |-> delay, version |-> v], 2, 1, TRUE)

SpecOptions == InitOptions /\ [][Next]_vars

\* the runs of a two-page file under signal timeouts that are and are not
\* multiples of the poll delay, the default timeout among them
WaitTimeouts == {0, delay \div 2, delay, delay + delay \div 2, Undefined}
InitWait ==
  \E T \in WaitTimeouts, heard \in BOOLEAN :
    InitWith([pageSize |-> 1, maxTries |-> 0, signalTimeout |-> T, version |-> NoVersion],
             2, 1, heard)

SpecWait == InitWait /\ [][Next]_vars

\* program() is called again on the same instance, with the same file, once
\* the first run has come to rest
InitAgain ==
  \E m \in 0..1 :
    InitWith([pageSize |-> 1, maxTries |-> m, signalTimeout |-> delay, version |-> NoVersion],
             1, 2, TRUE)

SpecAgain == InitAgain /\ [][Next]_vars

\* every callback that is pending is eventually called: the transport calls
\* back for every message, every timer fires and every read returns
FairSpec == Init /\ [][Next]_vars /\ WF_vars(Next)

(* ---- what a run has done, read off the history ------------------------ *)
IsMsg(e, cmd) == e.type = "msg" /\ e.cmd = cmd

\* the messages put on the bus, in order
Sent == SelectSeq(log, LAMBDA e : e.type = "msg")

CountOf(cmd) == Cardinality({i \in 1..Len(log) : IsMsg(log[i], cmd)})

\* the values of the signal reads made in context ctx ("ready", "busy", "page")
ReadsIn(ctx) == SelectSeq(log, LAMBDA e : e.type = "read" /\ e.ctx = ctx)

Flagged == LET r == ReadsIn("page") IN {i \in 1..Len(r) : r[i].val}
NoFlag == \A i \in 1..Len(log) : (log[i].type = "read" /\ log[i].ctx = "page") => ~log[i].val
AllFlagged == \A i \in 1..Len(log) : (log[i].type = "read" /\ log[i].ctx = "page") => log[i].val

NoTransportError == \A i \in 1..Len(log) : log[i].type # "error"
NoReadFailure == \A i \in 1..Len(log) : log[i].type = "read" => log[i].ref = 0

\* the image as the claims describe it: N pages of pageSize bytes, the last
\* one possibly shorter, page n starting at offset (n - 1) * pageSize
ImageLen == Len(content)
NumImagePages == (ImageLen + opt.pageSize - 1) \div opt.pageSize
ImagePage(n) ==
  [j \in 1..Min(opt.pageSize, ImageLen - (n - 1) * opt.pageSize) |->
     content[(n - 1) * opt.pageSize + j]]

\* the page a PAGE_DATA payload is, told by the offset its first byte carries
PageIndexOf(m) == (m.data[1] \div opt.pageSize) + 1

PageNums ==
  LET m == SelectSeq(log, LAMBDA e : IsMsg(e, MSG_PAGE_NUM))
  IN [i \in 1..Len(m) |-> m[i].data[1]]
DataPages ==
  LET m == SelectSeq(log, LAMBDA e : IsMsg(e, MSG_PAGE_DATA))
  IN [i \in 1..Len(m) |-> PageIndexOf(m[i])]

FromTo(a, b) == [i \in 1..(b - a + 1) |-> a + i - 1]

\* a pass is a maximal run of pages sent in ascending order
Passes ==
  LET d == DataPages
  IN Cardinality({i \in 1..Len(d) : i = 1 \/ d[i] <= d[i - 1]})
RetryPasses == LET p == Passes IN IF p = 0 THEN 0 ELSE p - 1

\* no callback is pending: the run has stopped
Halted == pc = "halted" /\ inflight = {}
\* the run has stopped, in order or with an exception thrown out of a callback
AtRest == pc \in {"halted", "crashed"} /\ inflight = {}

EndsCompleted ==
  {i \in 1..Len(log) : IsMsg(log[i], MSG_END)
                         /\ \E j \in (i + 1)..Len(log) : log[j].type = "complete" /\ log[j].ref = i}
\* the Complete state of the session: END was sent and every END send completed
Complete ==
  /\ Halted
  /\ CountOf(MSG_END) > 0
  /\ Cardinality(EndsCompleted) = CountOf(MSG_END)

FirstIndex(cmd) == CHOOSE i \in 1..Len(log) :
                     IsMsg(log[i], cmd) /\ \A j \in 1..(i - 1) : ~IsMsg(log[j], cmd)

(* ---- C1 --------------------------------------------------------------- *)
\* C1: in a run in which no post-page read flags a failure, the PAGE_NUMBER
\* messages carry 1, 2, ..., N in order for an image of N pages (all N of them
\* once END is sent), and each PAGE_NUMBER n is immediately followed on the
\* bus by the PAGE_DATA message of page n, with its declared length.
C1_PageNumbersThenData ==
  NoFlag =>
    LET nums == PageNums
        sent == Sent
    IN
    /\ nums = FromTo(1, Len(nums))
    /\ Len(nums) <= NumImagePages
    /\ CountOf(MSG_END) > 0 => Len(nums) = NumImagePages
    /\ \A i \in 1..(Len(sent) - 1) :
         sent[i].cmd = MSG_PAGE_NUM =>
           sent[i + 1] = Msg(MSG_PAGE_DATA, Len(ImagePage(sent[i].data[1])),
                             ImagePage(sent[i].data[1]))

\* the same statement for the images that have at least one page
C1_NonEmptyImage == NumImagePages >= 1 => C1_PageNumbersThenData

C1_NonEmptyImageWitness ==
  /\ NoFlag /\ Complete /\ NumImagePages = 2 /\ Len(ImagePage(2)) < opt.pageSize

(* ---- C2 --------------------------------------------------------------- *)
\* the run of C2: it has stopped, no message failed, and exactly one post-page
\* read flagged a failure, the one after page k
C2_Run(k) ==
  /\ AtRest
  /\ NoTransportError
  /\ NumImagePages >= 2
  /\ LET f == Flagged IN Cardinality(f) = 1 /\ \E i \in f : DataPages[i] = k

C2_Outcome(k) ==
  /\ programTries = 1
  /\ RetryPasses = 1
  /\ DataPages = FromTo(1, NumImagePages) \o FromTo(k, NumImagePages)
  /\ CountOf(MSG_END) > 0
  /\ Complete

\* C2 as stated: whenever a run of at least two pages was flagged exactly once,
\* after page k, it made exactly one retry pass re-sending pages k..N, sent END
\* and reached Complete with retry count 1.
C2_OneRetryPass ==
  \A k \in 1..NumImagePages : C2_Run(k) => C2_Outcome(k)

(* ---- C3 --------------------------------------------------------------- *)
C3_Premise ==
  /\ opt.maxTries = 2
  /\ \E i \in 1..Len(log) : log[i].type = "read" /\ log[i].ctx = "page"
  /\ AllFlagged

\* C3 as stated: with maxTries = 2 and every post-page read flagging a failure,
\* the run fails with the retry limit once the retry count is 2 and never
\* attempts a third pass.
C3_NoThirdPass ==
  C3_Premise =>
    /\ Passes <= 2
    /\ outcome.reason = "retry" => programTries = 2
    /\ (AtRest /\ NoTransportError) => outcome = Rejected("retry", "")

(* ---- C4 --------------------------------------------------------------- *)
\* C4: the retry counter stays within 0..maxTries, it counts the retry passes
\* (one increment per retry pass), and a run that failed with the retry limit
\* has a retry counter equal to maxTries.
C4_RetryCounter ==
  /\ 0 <= programTries /\ programTries <= opt.maxTries
  /\ programTries = RetryPasses
  /\ outcome.reason = "retry" => programTries = opt.maxTries

C4_Witness ==
  /\ outcome.reason = "retry" /\ programTries = opt.maxTries /\ opt.maxTries = 1

(* ---- C5 --------------------------------------------------------------- *)
\* C5: every PAGE_DATA message, in every pass, is immediately preceded on the
\* bus by the PAGE_NUMBER message that names its page (so the first message
\* after a retry is triggered is a PAGE_NUMBER).
C5_DataAfterItsNumber ==
  LET sent == Sent IN
  \A i \in 1..Len(sent) :
    sent[i].cmd = MSG_PAGE_DATA =>
      /\ i > 1
      /\ sent[i - 1] = Msg(MSG_PAGE_NUM, 1, <<PageIndexOf(sent[i])>>)

(* ---- C6 --------------------------------------------------------------- *)
\* the finish step was entered: the check after the last page read no failure
\* with no failing page recorded, and the END sends follow it at once
FinishReached ==
  LET f == FirstIndex(MSG_END) IN
  /\ f > 1
  /\ log[f - 1].type = "read" /\ log[f - 1].ctx = "page" /\ ~log[f - 1].val
  /\ currentPage >= Len(pages)
  /\ errorAtPage = NoErrorPage

\* C6: a run that reached success (its outcome resolved, or the session
\* Complete) has sent exactly two END messages, and END messages are only
\* ever sent by the finish step.
C6_TwoEnds ==
  /\ (Complete \/ outcome.state = "resolved") => CountOf(MSG_END) = 2
  /\ CountOf(MSG_END) > 0 => (FinishReached /\ CountOf(MSG_END) = 2)

C6_Witness == Complete /\ CountOf(MSG_END) = 2 /\ programTries = 1

(* ---- C7 --------------------------------------------------------------- *)
Settled == outcome.state \in {"resolved", "rejected"}

\* C7: once the outcome of program() is settled no later callback changes it.
C7_SettledOnce == [][Settled => outcome' = outcome]_vars

\* both END sends reported an error, the second after the outcome was settled
C7_Witness ==
  /\ Settled
  /\ Cardinality({i \in 1..Len(log) : log[i].type = "error"
                                        /\ IsMsg(log[log[i].ref], MSG_END)}) = 2

(* ---- C8 --------------------------------------------------------------- *)
\* the run of C8: ready on the first read, busy on the first read after START,
\* no read failed, no post-page read flagged, every message completed
C8_Run ==
  /\ Halted
  /\ NoTransportError /\ NoReadFailure /\ NoFlag
  /\ Len(ReadsIn("ready")) = 1 /\ ReadsIn("ready")[1].val
  /\ Len(ReadsIn("busy")) = 1 /\ ~ReadsIn("busy")[1].val

\* C8: such a run ends with the outcome of program() resolved as success.
C8_ResolvesSuccess == C8_Run => outcome.state = "resolved"

(* ---- C9 --------------------------------------------------------------- *)
NeverReady ==
  LET r == ReadsIn("ready") IN r # <<>> /\ \A i \in 1..Len(r) : ~r[i].val

\* C9: while no read of the initial wait has returned ready no protocol
\* message is sent, and when the run has stopped its outcome is the
\* ready-timeout failure.
C9_ReadyTimeout ==
  NeverReady =>
    /\ Sent = <<>>
    /\ AtRest => outcome = Rejected("timeout", "")

(* ---- C10 -------------------------------------------------------------- *)
\* C10: START is sent right after a signal read returned ready, and the first
\* PAGE_NUMBER is sent only after START completed and a later read returned busy.
C10_Handshake ==
  /\ \A i \in 1..Len(log) :
       IsMsg(log[i], MSG_START) =>
         /\ i > 1
         /\ log[i - 1].type = "read" /\ log[i - 1].ctx = "ready" /\ log[i - 1].val
  /\ CountOf(MSG_PAGE_NUM) > 0 =>
       LET p == FirstIndex(MSG_PAGE_NUM) IN
       \E s \in 1..(p - 1) :
         /\ IsMsg(log[s], MSG_START)
         /\ \E c \in (s + 1)..(p - 1) :
              /\ log[c].type = "complete" /\ log[c].ref = s
              /\ \E r \in (c + 1)..(p - 1) :
                   log[r].type = "read" /\ log[r].ctx = "busy" /\ ~log[r].val

\* both waits had to poll twice before the handshake went through
C10_Witness ==
  /\ CountOf(MSG_PAGE_NUM) > 0
  /\ Len(ReadsIn("ready")) = 2 /\ Len(ReadsIn("busy")) = 2

(* ---- C11 -------------------------------------------------------------- *)
\* C11: START is sent at most once in a run (a retry does not send it again),
\* it is the first message on the bus, and once an END has been sent only END
\* messages follow: no START, PAGE_NUMBER or PAGE_DATA comes after an END.
C11_StartOnceEndLast ==
  LET sent == Sent IN
  /\ CountOf(MSG_START) <= 1
  /\ sent # <<>> => sent[1].cmd = MSG_START
  /\ \A i \in 1..(Len(sent) - 1) : sent[i].cmd = MSG_END => sent[i + 1].cmd = MSG_END

\* a run that retried and finished: one START, then pages, then the ENDs
C11_Witness ==
  /\ Complete
  /\ programTries >= 1
  /\ CountOf(MSG_START) = 1
  /\ CountOf(MSG_PAGE_DATA) >= 2

(* ---- C12 -------------------------------------------------------------- *)
RECURSIVE Concat(_)
Concat(ps) == IF ps = <<>> THEN <<>> ELSE Head(ps) \o Concat(Tail(ps))

\* the fs.readFile callback has delivered the file
FileRead == log # <<>> /\ log[1].type = "readFile" /\ ~log[1].val

\* C12: once the file of L bytes is read with page size P > 0, the session
\* holds exactly ceil(L / P) pages in file order, every page but the last has
\* P bytes, the last has between 1 and P, an empty file gives no page, and the
\* pages concatenated are the file.
C12_Segmentation ==
  FileRead =>
    LET L == Len(content)
        P == opt.pageSize
        n == Len(pages)
    IN
    /\ P > 0
    /\ n = (L + P - 1) \div P
    /\ \A i \in 1..(n - 1) : Len(pages[i]) = P
    /\ n > 0 => Len(pages[n]) \in 1..P
    /\ L = 0 => pages = <<>>
    /\ Concat(pages) = content

\* a file that does not divide into whole pages: the last page is short
C12_Witness ==
  /\ FileRead
  /\ Len(pages) = 2
  /\ Len(pages[1]) = opt.pageSize
  /\ Len(pages[2]) < opt.pageSize

(* ---- C13 -------------------------------------------------------------- *)
\* C13: constructing without a pageSize option throws in the constructor,
\* before the transport is created or connected, and no file read, signal-line
\* read or bus message ever happens for that construction.
C13_NoPageSizeThrows ==
  (PageSizeMissing(options) /\ pc # "new") =>
    /\ pc = "threw"
    /\ disco = "none"
    /\ log = <<>>
    /\ inflight = {}
    /\ pages = <<>>
    /\ outcome.state = "none"

\* the constructor was called without pageSize and threw
C13_Witness == PageSizeMissing(options) /\ pc = "threw"

(* ---- C14 -------------------------------------------------------------- *)
\* what the caller gave for a sub-field of the version, 0 when it gave none
GivenOr0(field) ==
  IF options.version.kind = "object" /\ options.version[field] # Undefined
    THEN options.version[field]
    ELSE 0

\* C14: after construction the version is the pair (major, minor) in which
\* each sub-field is the one the caller gave and 0 when it gave none (no
\* version or a null version gives (0, 0)), and every START message carries
\* exactly these two values as its payload.
C14_VersionDefaults ==
  pc \notin {"new", "threw"} =>
    /\ opt.version = [major |-> GivenOr0("major"), minor |-> GivenOr0("minor")]
    /\ \A i \in 1..Len(log) :
         IsMsg(log[i], MSG_START) =>
           log[i].len = 2 /\ log[i].data = <<GivenOr0("major"), GivenOr0("minor")>>

\* START was sent for a version given with a major number only
C14_Witness ==
  /\ options.version.kind = "object"
  /\ options.version.major = 1
  /\ options.version.minor = Undefined
  /\ \E i \in 1..Len(log) : IsMsg(log[i], MSG_START) /\ log[i].data = <<1, 0>>

(* ---- C15 -------------------------------------------------------------- *)
\* fs.readFile handed an error to its callback
FileReadFailed == log # <<>> /\ log[1].type = "readFile" /\ log[1].val

\* C15: when reading the program file fails, the outcome is the failure that
\* carries the read error, no page is segmented, and no signal-line read and
\* no bus message ever follows.
C15_ReadFailure ==
  FileReadFailed =>
    /\ outcome = Rejected("read", log[1].ctx)
    /\ log[1].ctx \in FileErrors
    /\ pages = <<>>
    /\ Len(log) = 1
    /\ inflight = {}
    /\ pc = "halted"

\* the file could not be read and the promise was rejected with that error
C15_Witness == FileReadFailed /\ outcome.state = "rejected" /\ outcome.err = "EACCES"

(* ---- C16 -------------------------------------------------------------- *)
\* C16: the run is strictly sequential: at most one bus message is in flight
\* at any time, a message (the second END included) is begun only after the
\* completion of the previous one was observed, and no signal-line wait runs
\* while a message or another wait is pending.
C16_OneAtATime ==
  /\ Cardinality(inflight) <= 1
  /\ \A i \in 1..Len(log) :
       log[i].type = "msg" =>
         \A j \in 1..(i - 1) :
           log[j].type = "msg" =>
             \E k \in (j + 1)..(i - 1) : log[k].type = "complete" /\ log[k].ref = j
  /\ pc \in {"checkSignal", "signalTimer", "pageCheck"} => inflight = {}

(* ---- C17 -------------------------------------------------------------- *)
\* the END sends whose error callback ran
EndsFailed ==
  {j \in 1..Len(log) : log[j].type = "error" /\ IsMsg(log[log[j].ref], MSG_END)}

\* C17: the outcome is success only when both END sends have completed, and
\* when an END send reports a transport error the outcome is the write
\* failure, in whichever order the two END callbacks arrive.
C17_EndOutcome ==
  /\ outcome.state = "resolved" =>
       Cardinality(EndsCompleted) = 2 /\ EndsFailed = {}
  /\ EndsFailed # {} => outcome.state = "rejected" /\ outcome.reason = "write"

\* one END send completed, then the other reported an error
C17_Witness ==
  /\ outcome.state = "rejected"
  /\ \E j \in EndsFailed :
       \E i \in 1..(j - 1) : log[i].type = "complete" /\ IsMsg(log[log[i].ref], MSG_END)

(* ---- C18 -------------------------------------------------------------- *)
\* C18: a signal-line read that fails emits the error event first and yields
\* false, and it never completes a signal wait: the continuation of the wait
\* (the START or PAGE_NUMBER message) is not sent on a failed read, for the
\* wait for ready and for the wait for busy alike.
C18_FailedReadKeepsWaiting ==
  \A i \in 1..Len(log) :
    (log[i].type = "read" /\ log[i].ref = 1) =>
      /\ ~log[i].val
      /\ i > 1
      /\ log[i - 1].type = "emit" /\ log[i - 1].ctx = "error"
      /\ log[i - 1].ref = CouldNotReadSignalLine
      /\ (log[i].ctx \in {"ready", "busy"} /\ i < Len(log)) => log[i + 1].type # "msg"

(* ---- C19 -------------------------------------------------------------- *)
\* the index in DataPages at which the pass holding the i-th PAGE_DATA began
PassStart(d, i) ==
  CHOOSE s \in 1..i :
    /\ s = 1 \/ d[s] # d[s - 1] + 1
    /\ \A k \in (s + 1)..i : d[k] = d[k - 1] + 1

\* C19: the PAGE_DATA messages of a pass are those of consecutive ascending
\* page indexes, none skipped or repeated: the first pass starts at page 1,
\* a pass ends only at page N, and the pass that follows it starts at the
\* first page the ended pass recorded as failing; once END is sent the last
\* pass has reached page N.
C19_AscendingPasses ==
  LET d == DataPages
      r == ReadsIn("page")
      N == NumImagePages
  IN
  /\ d # <<>> => d[1] = 1
  /\ \A i \in 1..Len(d) : d[i] \in 1..N
  /\ \A i \in 2..Len(d) :
       \/ d[i] = d[i - 1] + 1
       \/ /\ d[i - 1] = N
          /\ LET s == PassStart(d, i - 1)
                 fl == {k \in s..(i - 1) : r[k].val}
             IN /\ fl # {}
                /\ \E f \in fl : (\A k \in fl : f <= k) /\ d[i] = d[f]
  /\ (CountOf(MSG_END) > 0 /\ N >= 1) => (d # <<>> /\ d[Len(d)] = N)

\* a finished run whose retry pass began at page 2, the page flagged in the
\* first pass
C19_Witness ==
  /\ Complete
  /\ DataPages = <<1, 2, 2>>
  /\ ReadsIn("page")[2].val

(* ---- C20 -------------------------------------------------------------- *)
IsVerificationError(e) == e.type = "emit" /\ e.ref = VerificationError

\* what one step does to the failing-page marker.  In a post-page check the
\* read flags a failure or not; the retry transition is the step that raises
\* the retry counter.
C20_MarkerStep ==
  LET new == SubSeq(log', Len(log) + 1, Len(log'))
      verr == {k \in 1..Len(new) : IsVerificationError(new[k])}
      retry == programTries' = programTries + 1
  IN
  IF pc = "pageCheck"
    THEN \E k \in 1..Len(new) :
           /\ new[k].type = "read" /\ new[k].ctx = "page"
           /\ IF new[k].val /\ errorAtPage = NoErrorPage
                THEN /\ Cardinality(verr) = 1
                     /\ \A e \in verr : e > k /\ new[e].data[2] = currentPage
                                               /\ new[e].data[3] = currentPage
                     /\ IF retry THEN errorAtPage' = NoErrorPage /\ currentPage' = currentPage
                                 ELSE errorAtPage' = currentPage
                ELSE /\ verr = {}
                     /\ IF retry THEN errorAtPage' = NoErrorPage /\ currentPage' = errorAtPage
                                 ELSE errorAtPage' = errorAtPage
           /\ currentPage < Len(pages) => (pc' = "pageTimer" /\ ~retry)
    ELSE verr = {} /\ errorAtPage' = errorAtPage /\ ~retry

\* C20: within a pass the failing-page marker is set once, by the first
\* post-page check whose read flags a failure, to the current page, with one
\* verification error event; a later flagged read of the pass leaves the
\* marker alone and emits no verification error, a flagged read before the
\* last page does not end the pass, and only the retry transition clears the
\* marker.
C20_MarkedOncePerPass == [][C20_MarkerStep]_vars

(* ---- C21 -------------------------------------------------------------- *)
\* C21: an END message is on the bus only if the last thing before the first
\* END was the post-page check of page N, no post-page read of the pass that
\* ended there flagged a failure, and every page 1..N was sent at least once.
C21_EndOnlyAfterCleanPass ==
  CountOf(MSG_END) > 0 =>
    LET d == DataPages
        r == ReadsIn("page")
        N == NumImagePages
        e == FirstIndex(MSG_END)
    IN
    /\ d # <<>>
    /\ d[Len(d)] = N
    /\ Len(r) = Len(d)
    /\ \A k \in PassStart(d, Len(d))..Len(d) : ~r[k].val
    /\ \A n \in 1..N : \E i \in 1..Len(d) : d[i] = n
    /\ e > 1 /\ log[e - 1].type = "read" /\ log[e - 1].ctx = "page"

\* END was sent after a retry pass over a two-page image
C21_Witness ==
  /\ CountOf(MSG_END) > 0
  /\ NumImagePages = 2
  /\ Passes = 2
  /\ Flagged # {}

(* ---- C22 -------------------------------------------------------------- *)
\* the error callback of a START, PAGE_NUMBER or PAGE_DATA message has run
WriteFailed ==
  \E j \in 1..Len(log) : log[j].type = "error" /\ ~IsMsg(log[log[j].ref], MSG_END)

\* the step in which such an error is reported rejects the run with the write
\* error, sends nothing and leaves the retry counter; no step follows it
C22_WriteErrorStep ==
  /\ (~WriteFailed /\ WriteFailed') =>
       /\ outcome' = Rejected("write", outcome'.err)
       /\ outcome'.err \in TransportErrors
       /\ programTries' = programTries
       /\ Sent' = Sent
       /\ inflight' = {}
       /\ pc' = "halted"
  /\ WriteFailed => vars' = vars

\* C22: when the transport reports an error for a START, PAGE_NUMBER or
\* PAGE_DATA message, the outcome becomes the write-error failure, the message
\* is not sent again, the retry counter keeps its value, and no protocol
\* message is sent afterwards in that run.
C22_WriteErrorIsFatal == [][C22_WriteErrorStep]_vars

\* a PAGE_DATA message of a retry pass failed on the transport
C22_Witness ==
  /\ WriteFailed
  /\ programTries = 1
  /\ outcome.state = "rejected" /\ outcome.reason = "write"
  /\ log[Len(log)].type = "error" /\ IsMsg(log[log[Len(log)].ref], MSG_PAGE_DATA)

(* ---- C23 -------------------------------------------------------------- *)
\* a poll of a signal wait that does not read the target when the time of
\* the wait is used up is the timeout of the wait: it rejects the run, sends
\* nothing, starts no poll and no wait, and leaves the retry counter; no step
\* follows it
C23_TimeoutStep ==
  LET last == log'[Len(log')] IN
  /\ (/\ pc = "checkSignal"
      /\ Len(log') > Len(log)
      /\ last.type = "read" /\ last.val # wait.target
      /\ wait.time >= opt.signalTimeout) =>
       /\ outcome' = Rejected("timeout", "")
       /\ pc' = "halted"
       /\ wait' = wait
       /\ programTries' = programTries /\ programTries = 0
       /\ inflight' = {}
       /\ Sent' = Sent
       /\ last.ctx = "ready" => Sent = <<>>
       /\ last.ctx = "busy" => (Len(Sent) = 1 /\ Sent[1].cmd = MSG_START)
  /\ outcome.reason = "timeout" => vars' = vars

\* C23: a timeout of the wait for ready or of the wait for busy fails the
\* run with the devices-not-ready reason; the wait is not started again, the
\* retry counter is not raised and no protocol message follows, so START is
\* the only message of a run whose wait for busy timed out.
C23_TimeoutIsFatal == [][C23_TimeoutStep]_vars

\* the wait for busy after START timed out
C23_Witness ==
  /\ outcome = Rejected("timeout", "")
  /\ CountOf(MSG_START) = 1
  /\ Len(Sent) = 1
  /\ Len(ReadsIn("busy")) = 2

(* ---- C24 -------------------------------------------------------------- *)
\* the reads a wait makes when none of them equals the target:
\* ceil(T / 100) + 1
PollsUntilTimeout(T) == (T + 99) \div 100 + 1

\* the wait whose reads are logged under ctx, for target t: every read but
\* the last missed the target, the continuation message cmd is on the bus
\* exactly when the last read equals t, and the wait has timed out exactly
\* when PollsUntilTimeout(T) reads were made and all of them missed
WaitIsBounded(ctx, t, cmd) ==
  LET r == ReadsIn(ctx)
      n == Len(r)
      K == PollsUntilTimeout(opt.signalTimeout)
      missed == \A i \in 1..n : r[i].val # t
      waiting == pc \in {"checkSignal", "signalTimer"}
                   /\ wait.then = (IF ctx = "ready" THEN "start" ELSE "pageNumber")
  IN
  /\ n <= K
  /\ \A i \in 1..(n - 1) : r[i].val # t
  /\ (n > 0 /\ r[n].val = t) <=> CountOf(cmd) > 0
  /\ (n = K /\ missed) <=> (outcome = Rejected("timeout", "") /\ CountOf(cmd) = 0 /\ n > 0)
  /\ (n > 0 /\ n < K /\ missed) => waiting
  /\ (waiting /\ pc = "checkSignal") => wait.time = n * 100

\* C24: a signal wait with target t and timeout T ends at the first poll
\* whose read equals t, with no read after it, and when no read equals t it
\* times out at poll k with (k - 1) * 100 >= T, after ceil(T / 100) + 1
\* reads made 100 ms apart; it never polls longer.
C24_WaitTerminates ==
  pc \notin {"new", "threw"} =>
    /\ WaitIsBounded("ready", TRUE, MSG_START)
    /\ WaitIsBounded("busy", FALSE, MSG_PAGE_NUM)

(* ---- C25 -------------------------------------------------------------- *)
\* C25: when every pending callback is eventually called, every program()
\* run, whatever the image and the signal line do, eventually has its outcome
\* settled, as success or as a failure.
C25_EventuallySettles == (pc = "readFile") ~> Settled

(* ---- C26 -------------------------------------------------------------- *)
\* C26: in every state of a run over an image of N >= 1 pages the current
\* page is in 0..N, the failing-page marker is none or in 1..current page,
\* every PAGE_NUMBER payload is in 1..N and every page picked for a PAGE_DATA
\* message is one of the pages 1..N (no pick misses the page list).
C26_PageBounds ==
  (pc \notin {"new", "threw"} /\ NumImagePages >= 1) =>
    LET N == NumImagePages
        nums == PageNums
        d == DataPages
    IN
    /\ currentPage \in 0..N
    /\ errorAtPage = NoErrorPage \/ errorAtPage \in 1..currentPage
    /\ \A i \in 1..Len(nums) : nums[i] \in 1..N
    /\ \A i \in 1..Len(d) : d[i] \in 1..N
    /\ \A i \in 1..Len(log) : log[i].type = "throw" => log[i].ctx # "TypeError"

\* the last page of a two-page image is the current page and page 1 is
\* the recorded failing page
C26_Witness ==
  /\ NumImagePages = 2
  /\ currentPage = 2
  /\ errorAtPage = 1
  /\ PageNums = <<1, 2>>

(* ---- C27 -------------------------------------------------------------- *)
\* the fs.readFile callbacks so far, one per program() call that got its file
FileEvents == {i \in 1..Len(log) : log[i].type = "readFile"}

\* C27: a program() call made on the same instance after a run has
\* terminated starts from current page 0, retry count 0, no failing-page
\* marker and an empty page list; once its file is read the page list holds
\* the pages of that file only, and the first PAGE_NUMBER it sends carries 1.
C27_SessionReset ==
  /\ (pc = "readFile" /\ log # <<>>) =>
       /\ currentPage = 0
       /\ programTries = 0
       /\ errorAtPage = NoErrorPage
       /\ pages = <<>>
  /\ Cardinality(FileEvents) = 2 =>
       LET f == CHOOSE i \in FileEvents : \A j \in FileEvents : j <= i IN
       /\ ~log[f].val => pages = SplitPages(content, opt.pageSize)
       /\ \A i \in (f + 1)..Len(log) :
            (IsMsg(log[i], MSG_PAGE_NUM)
               /\ \A j \in (f + 1)..(i - 1) : ~IsMsg(log[j], MSG_PAGE_NUM))
              => log[i].data = <<1>>

====
